---- MODULE Spec2Model ----
(***************************************************************************)
(* Shape-level model of models/StyleGan2/model.py: the FIR resampling      *)
(* layers, the style-modulated convolution, and the Generator,             *)
(* Discriminator and Encoder (construction and forward).  A tensor is      *)
(* modelled by its shape (a sequence of dimensions); a style vector also   *)
(* carries the symbolic term it holds (which latent it came from and how   *)
(* many times the mapping network was applied to it).  A raised Python     *)
(* exception is the value Raised.                                          *)
(***************************************************************************)
EXTENDS Integers, Sequences, FiniteSets, TLC

\* ------------------------------------------------------------------ bounds
MaxBatch == 3        \* batch sizes 1..MaxBatch
MaxStddevGroup == 2  \* stddev_group in 1..MaxStddevGroup
MaxKernel == 5       \* FIR kernel lengths 1..MaxKernel
MaxFactor == 3       \* resampling factors 1..MaxFactor
MaxInput == 6        \* spatial sizes 1..MaxInput fed to a lone FIR layer
MaxZ == 2            \* distinct latent vectors z_1..z_MaxZ
MaxConvKernel == 3   \* convolution kernel sizes 1..MaxConvKernel next to a Blur
MaxChannels == 3     \* in_channel in 1..MaxChannels of a lone ModulatedConv2d

\* ------------------------------------------------------- program constants
channel_multiplier == 2
BlurKernelLen == 4   \* len(blur_kernel), blur_kernel = [1, 3, 3, 1]
ConstSize == 4       \* ConstantInput(channel, size=4)
\* 1 / 1e-8 (the constant added under the rsqrt of the demodulation), divided
\* by 10^4: weights and modulations are counted in tenths, so a squared
\* modulated weight is counted in units of 1e-4.
InvEpsFixed == 10000

\* The shape of a tensor whose computation raised an exception.
Raised == <<-1>>

\* A module whose constructor raised: no object exists.
NoObject == [cls |-> "None"]

RECURSIVE Log2Floor(_)
\* int(math.log(size, 2)) for size >= 1
Log2Floor(n) == IF n < 2 THEN 0 ELSE 1 + Log2Floor(n \div 2)

RECURSIVE Pow2(_)
Pow2(n) == IF n <= 0 THEN 1 ELSE 2 * Pow2(n - 1)

Min(a, b) == IF a < b THEN a ELSE b

Max(a, b) == IF a < b THEN b ELSE a

RECURSIVE Prod(_)
\* number of elements of a tensor of the given shape
Prod(s) == IF s = << >> THEN 1 ELSE Head(s) * Prod(Tail(s))

\* The channel-width table shared by Generator, Discriminator and Encoder.
channels ==
  [s \in {4, 8, 16, 32, 64, 128, 256, 512, 1024} |->
     CASE s <= 32   -> 512
       [] s = 64    -> 256 * channel_multiplier
       [] s = 128   -> 128 * channel_multiplier
       [] s = 256   -> 64 * channel_multiplier
       [] s = 512   -> 32 * channel_multiplier
       [] s = 1024  -> 16 * channel_multiplier]

\* ------------------------------------------------------------ FIR resample
\* Output spatial size of the FIR op on an input of spatial size S with a
\* kernel of length K: zero-insert by up, pad, convolve, keep every down-th.
upfirdn2d(S, K, up, down, pad0, pad1) ==
  (S * up + pad0 + pad1 - K) \div down + 1

\* Mutant: Upsample given Downsample's pad0 (the factor - 1 shift forgotten).
UpsamplePad_NoShift(K, factor) ==
  LET p == K - factor
  IN  <<(p + 1) \div 2, p \div 2>>

\* Upsample.__init__: the (pad0, pad1) pair for kernel length K and factor.
UpsamplePad(K, factor) ==
  LET p == K - factor
  IN  <<(p + 1) \div 2 + factor - 1, p \div 2>>

UpsampleInit(K, factor) ==
  [kind |-> "Upsample", K |-> K, factor |-> factor, pad |-> UpsamplePad(K, factor)]

UpsampleForward(m, S) ==
  upfirdn2d(S, m.K, m.factor, 1, m.pad[1], m.pad[2])

\* Downsample.__init__
DownsamplePad(K, factor) ==
  LET p == K - factor
  IN  <<(p + 1) \div 2, p \div 2>>

DownsampleInit(K, factor) ==
  [kind |-> "Downsample", K |-> K, factor |-> factor, pad |-> DownsamplePad(K, factor)]

DownsampleForward(m, S) ==
  upfirdn2d(S, m.K, 1, m.factor, m.pad[1], m.pad[2])

\* Blur.__init__ keeps the pad it is given; Blur.forward is the FIR op with
\* up = down = 1.
BlurInit(K, pad) ==
  [kind |-> "Blur", K |-> K, factor |-> 1, pad |-> pad]

BlurForward(m, S) ==
  upfirdn2d(S, m.K, 1, 1, m.pad[1], m.pad[2])

\* ------------------------------------------------------------ convolutions
\* F.conv2d output size; Raised (as a size, -1) when the padded input is
\* smaller than the kernel.
conv2d(H, k, stride, padding) ==
  IF H + 2 * padding < k THEN -1
  ELSE (H + 2 * padding - k) \div stride + 1

\* F.conv_transpose2d output size (output_padding = 0, dilation = 1).
conv_transpose2d(H, k, stride, padding) ==
  (H - 1) * stride - 2 * padding + k

\* Mutant: the upsample blur padded as a lone Upsample layer is (the
\* convolution's kernel_size - 1 left out of p).
ModUpBlurPad_NoKernel(K, kernel_size) ==
  LET factor == 2
      p == K - factor
  IN  <<(p + 1) \div 2 + factor - 1, p \div 2>>

\* ModulatedConv2d.__init__, upsample branch: the blur's pad.
ModUpBlurPad(K, kernel_size) ==
  LET factor == 2
      p == (K - factor) - (kernel_size - 1)
  IN  <<(p + 1) \div 2 + factor - 1, p \div 2 + 1>>

\* Mutant: the downsample blur padded as a lone Downsample layer is (the
\* convolution's kernel_size - 1 left out of p).
DownBlurPad_NoKernel(K, kernel_size) ==
  LET factor == 2
      p == K - factor
  IN  <<(p + 1) \div 2, p \div 2>>

\* ModulatedConv2d.__init__, downsample branch, and ConvLayer.__init__ with
\* downsample: the blur's pad.
DownBlurPad(K, kernel_size) ==
  LET factor == 2
      p == (K - factor) + (kernel_size - 1)
  IN  <<(p + 1) \div 2, p \div 2>>

ModulatedConv2dInit(in_channel, out_channel, kernel_size, style_dim, upsample, downsample, K) ==
  [in_channel |-> in_channel, out_channel |-> out_channel,
   kernel_size |-> kernel_size, style_dim |-> style_dim,
   upsample |-> upsample, downsample |-> downsample,
   padding |-> kernel_size \div 2,
   blur |-> IF downsample THEN BlurInit(K, DownBlurPad(K, kernel_size))
            ELSE IF upsample THEN BlurInit(K, ModUpBlurPad(K, kernel_size))
            ELSE BlurInit(K, <<0, 0>>)]

\* ModulatedConv2d.forward on spatial size H: the spatial size of the
\* output (-1 when a convolution raises).
ModulatedConv2dSize(m, H) ==
  IF m.upsample
    THEN BlurForward(m.blur, conv_transpose2d(H, m.kernel_size, 2, 0))
  ELSE IF m.downsample
    THEN LET b == BlurForward(m.blur, H)
         IN  IF b < 1 THEN -1 ELSE conv2d(b, m.kernel_size, 2, 0)
  ELSE conv2d(H, m.kernel_size, 1, m.padding)

\* ModulatedConv2d.forward on shapes: input [N, C, H, W], style [N, style_dim].
\* The modulation is EqualLinear(style_dim, in_channel) followed by
\* view(batch, 1, in_channel, 1, 1).
ModulatedConv2dForward(m, input, style) ==
  IF Len(input) # 4 \/ Len(style) # 2 THEN Raised
  ELSE IF style[2] # m.style_dim THEN Raised
  ELSE IF style[1] * m.in_channel # input[1] * input[2] THEN Raised
  ELSE LET h == ModulatedConv2dSize(m, input[3])
           w == ModulatedConv2dSize(m, input[4])
       IN  IF h < 1 \/ w < 1 THEN Raised
           ELSE <<input[1], m.out_channel, h, w>>

\* NoiseInjection.forward: noise = 0 stands for None (fresh noise of the
\* image's shape is drawn); a supplied map [1, 1, h, h] is added by
\* broadcasting, which needs h = H or h = 1.
NoiseInjectionForward(image, noise) ==
  IF image = Raised THEN Raised
  ELSE IF noise = 0 \/ noise = 1 \/ (noise = image[3] /\ noise = image[4]) THEN image
  ELSE Raised

StyledConvInit(in_channel, out_channel, kernel_size, style_dim, upsample) ==
  [conv |-> ModulatedConv2dInit(in_channel, out_channel, kernel_size, style_dim,
                                upsample, FALSE, BlurKernelLen)]

\* StyledConv.forward: conv, noise injection, FusedLeakyReLU (elementwise).
StyledConvForward(m, input, style, noise) ==
  NoiseInjectionForward(ModulatedConv2dForward(m.conv, input, style), noise)

ToRGBInit(in_channel, style_dim, upsample) ==
  [has_upsample |-> upsample,
   upsample |-> UpsampleInit(BlurKernelLen, 2),
   conv |-> ModulatedConv2dInit(in_channel, 3, 1, style_dim, FALSE, FALSE, BlurKernelLen)]

\* ToRGB.forward; skip = << >> stands for None.
ToRGBForward(m, input, style, skip) ==
  LET o == ModulatedConv2dForward(m.conv, input, style)
  IN  IF o = Raised THEN Raised
      ELSE IF skip = << >> THEN o
      ELSE IF ~m.has_upsample THEN Raised
      ELSE LET up == <<skip[1], skip[2], UpsampleForward(m.upsample, skip[3]),
                       UpsampleForward(m.upsample, skip[4])>>
           IN  IF up = o THEN o ELSE Raised

\* --------------------------------------------------------------- Generator
\* Mutant: the stage loop written range(3, log_size), one stage short.
GeneratorStages_OneShort(log_size) == IF log_size < 4 THEN 0 ELSE log_size - 3

\* The resolutions range(3, log_size + 1) walks over.
GeneratorStages(log_size) == IF log_size < 3 THEN 0 ELSE log_size - 2

RECURSIVE GeneratorConvs(_, _, _, _)
\* self.convs for resolutions 2^i .. 2^log_size, given the running in_channel
GeneratorConvs(i, log_size, in_channel, style_dim) ==
  IF i > log_size THEN << >>
  ELSE LET out_channel == channels[Pow2(i)]
       IN  <<StyledConvInit(in_channel, out_channel, 3, style_dim, TRUE),
             StyledConvInit(out_channel, out_channel, 3, style_dim, FALSE)>>
           \o GeneratorConvs(i + 1, log_size, out_channel, style_dim)

\* Generator.__init__; NoObject when it raises (math.log of a size < 1, or a
\* channels[2 ** i] lookup of a missing key).
GeneratorInit(size, style_dim) ==
  IF size < 1 THEN NoObject
  ELSE
    LET log_size == Log2Floor(size)
        num_layers == (log_size - 2) * 2 + 1
    IN  IF \E i \in 3..log_size : Pow2(i) \notin DOMAIN channels THEN NoObject
        ELSE [cls |-> "Generator",
              size |-> size,
              style_dim |-> style_dim,
              log_size |-> log_size,
              num_layers |-> num_layers,
              n_latent |-> log_size * 2 - 2,
              input |-> <<1, channels[4], ConstSize, ConstSize>>,
              conv1 |-> StyledConvInit(channels[4], channels[4], 3, style_dim, FALSE),
              to_rgb1 |-> ToRGBInit(channels[4], style_dim, FALSE),
              convs |-> GeneratorConvs(3, log_size, channels[4], style_dim),
              to_rgbs |-> [j \in 1..GeneratorStages(log_size) |->
                             ToRGBInit(channels[Pow2(j + 2)], style_dim, TRUE)],
              noises |-> [j \in 1..Max(num_layers, 0) |-> Pow2((j - 1 + 5) \div 2)]]

\* Mutant: make_noise without its leading 4x4 map.
make_noise_NoFirst(g) ==
  [j \in 1..(2 * GeneratorStages(g.log_size)) |-> Pow2(3 + (j - 1) \div 2)]

\* Generator.make_noise: the spatial sizes of the maps it returns.
make_noise(g) ==
  <<Pow2(2)>> \o
  [j \in 1..(2 * GeneratorStages(g.log_size)) |-> Pow2(3 + (j - 1) \div 2)]

\* A style tensor whose computation raised.
RaisedTensor == [shape |-> Raised, src |-> 0, maps |-> 0, trunc |-> FALSE]

\* A per-block latent whose computation raised.
RaisedLatent == [shape |-> Raised, rows |-> << >>]

\* Generator.get_latent on a tensor [shape, src, maps, trunc]: the mapping
\* network self.style (PixelNorm, then EqualLinear(style_dim, style_dim)
\* layers) applied once more; Raised when view or F.linear raises.
get_latent(g, input) ==
  LET shape == input.shape
      last == shape[Len(shape)]
  IN  IF Len(shape) < 2 THEN RaisedTensor
      ELSE IF last > g.style_dim
        THEN IF Prod(shape) % g.style_dim # 0 THEN RaisedTensor
             ELSE [input EXCEPT !.maps = @ + 1]
      ELSE IF last # g.style_dim THEN RaisedTensor
      ELSE [input EXCEPT !.maps = @ + 1]

\* One row of the per-block latent: the style it holds.  part = 0 is the
\* whole supplied vector, part = j its j-th style_dim-wide slice.
Row(t, part) == [src |-> t.src, maps |-> t.maps, trunc |-> t.trunc, part |-> part]

\* styles[0].unsqueeze(1).repeat(1, n, 1) for a 2-D style.
RepeatStyle(t, n) ==
  IF Len(t.shape) # 2 \/ n < 0 THEN RaisedLatent
  ELSE [shape |-> <<t.shape[1], n, t.shape[2]>>, rows |-> [j \in 1..n |-> Row(t, 0)]]

\* The "no mixing" branch of Generator.forward.
SingleLatent(g, t) ==
  IF Len(t.shape) < 3
    THEN IF Len(t.shape) < 2 THEN RaisedLatent
         ELSE IF t.shape[2] = g.style_dim THEN RepeatStyle(t, g.n_latent)
         ELSE IF t.shape[2] % g.style_dim # 0 THEN RaisedLatent
         ELSE LET m == t.shape[2] \div g.style_dim
              IN  [shape |-> <<t.shape[1], m, g.style_dim>>,
                   rows |-> [j \in 1..m |-> Row(t, j)]]
  ELSE [shape |-> t.shape, rows |-> [j \in 1..t.shape[2] |-> Row(t, j)]]

\* Mutant: the two styles repeated in the wrong order.
MixLatent_Swapped(g, a, b, inject_index) ==
  LET latent == RepeatStyle(b, inject_index)
      latent2 == RepeatStyle(a, g.n_latent - inject_index)
  IN  IF latent.shape = Raised \/ latent2.shape = Raised THEN RaisedLatent
      ELSE [shape |-> <<latent.shape[1], latent.shape[2] + latent2.shape[2], latent.shape[3]>>,
            rows |-> latent.rows \o latent2.rows]

\* The "mixing" branch of Generator.forward for a given inject_index.
MixLatent(g, a, b, inject_index) ==
  LET latent == RepeatStyle(a, inject_index)
      latent2 == RepeatStyle(b, g.n_latent - inject_index)
  IN  IF latent.shape = Raised \/ latent2.shape = Raised THEN RaisedLatent
      ELSE IF latent.shape[1] # latent2.shape[1] \/ latent.shape[3] # latent2.shape[3]
        THEN RaisedLatent
      ELSE [shape |-> <<latent.shape[1], latent.shape[2] + latent2.shape[2], latent.shape[3]>>,
            rows |-> latent.rows \o latent2.rows]

\* The values random.randint(1, n_latent - 1) can return (none: it raises).
RandomInject(g) == 1..(g.n_latent - 1)

\* truncation_latent + truncation * (style - truncation_latent), with a
\* truncation_latent of shape [1, style_dim] (what mean_latent returns).
Truncate(g, t) ==
  IF t.shape[Len(t.shape)] # g.style_dim THEN RaisedTensor
  ELSE [t EXCEPT !.trunc = TRUE]

\* The noise list of Generator.forward: its entries' spatial sizes, 0 for a
\* None entry.  noise = << >> with given = FALSE stands for noise=None.
NoiseList(g, given, noise, randomize_noise) ==
  IF given THEN noise
  ELSE IF randomize_noise THEN [j \in 1..Max(g.num_layers, 0) |-> 0]
  ELSE g.noises

\* Mutant: the zip stopping one stage early.
ZipLen_OneShort(g, noise) ==
  Max(Min(Len(g.convs) \div 2, Len(g.to_rgbs)) - 1, 0)

\* How many times the zip of Generator.forward's loop yields.
ZipLen(g, noise) ==
  LET nconv == Len(g.convs)
      L == Len(noise)
  IN  Min(Min((nconv + 1) \div 2, nconv \div 2),
          Min(Min(L \div 2, Max((L - 1) \div 2, 0)), Len(g.to_rgbs)))

\* latent[:, j] (j counted from 0): the style's shape, Raised when j is out
\* of range.
LatentAt(latent, j) ==
  IF j >= latent.shape[2] THEN Raised
  ELSE <<latent.shape[1], latent.shape[3]>>

\* ------------------------------------------- ConvLayer, ResBlock, the heads
\* ConvLayer.__init__: an optional Blur, then EqualConv2d (the activation
\* keeps the shape).
ConvLayerInit(in_channel, out_channel, kernel_size, downsample) ==
  [type |-> "ConvLayer",
   in_channel |-> in_channel, out_channel |-> out_channel,
   kernel_size |-> kernel_size, downsample |-> downsample,
   blur |-> BlurInit(BlurKernelLen, IF downsample THEN DownBlurPad(BlurKernelLen, kernel_size)
                                    ELSE <<0, 0>>),
   stride |-> IF downsample THEN 2 ELSE 1,
   padding |-> IF downsample THEN 0 ELSE kernel_size \div 2]

\* The spatial size a ConvLayer returns (-1 when the convolution raises).
ConvLayerSize(m, H) ==
  LET b == IF m.downsample THEN BlurForward(m.blur, H) ELSE H
  IN  IF b < 1 THEN -1 ELSE conv2d(b, m.kernel_size, m.stride, m.padding)

ConvLayerForward(m, input) ==
  IF Len(input) # 4 THEN Raised
  ELSE IF input[2] # m.in_channel THEN Raised
  ELSE LET h == ConvLayerSize(m, input[3])
           w == ConvLayerSize(m, input[4])
       IN  IF h < 1 \/ w < 1 THEN Raised ELSE <<input[1], m.out_channel, h, w>>

ResBlockInit(in_channel, out_channel, architecture) ==
  [type |-> "ResBlock",
   architecture |-> architecture,
   conv1 |-> ConvLayerInit(in_channel, in_channel, 3, FALSE),
   conv2 |-> ConvLayerInit(in_channel, out_channel, 3, TRUE),
   skip |-> ConvLayerInit(in_channel, out_channel, 1, TRUE)]

\* ResBlock.forward: conv1, conv2, and with 'resnet' the skip added.
ResBlockForward(m, input) ==
  LET o == ConvLayerForward(m.conv2, ConvLayerForward(m.conv1, input))
  IN  IF o = Raised THEN Raised
      ELSE IF m.architecture # "resnet" THEN o
      ELSE IF ConvLayerForward(m.skip, input) = o THEN o
      ELSE Raised

RECURSIVE TrunkBlocks(_, _, _)
\* The ResBlocks for i = log_size down to 3, given the running in_channel.
TrunkBlocks(i, in_channel, architecture) ==
  IF i <= 2 THEN << >>
  ELSE LET out_channel == channels[Pow2(i - 1)]
       IN  <<ResBlockInit(in_channel, out_channel, architecture)>>
           \o TrunkBlocks(i - 1, out_channel, architecture)

\* self.convs of Discriminator and Encoder: ConvLayer(3, channels[size], 1)
\* and the ResBlocks.
TrunkInit(size, architecture) ==
  <<ConvLayerInit(3, channels[size], 1, FALSE)>>
  \o TrunkBlocks(Log2Floor(size), channels[size], architecture)

RECURSIVE TrunkForward(_, _)
\* nn.Sequential over self.convs.
TrunkForward(convs, input) ==
  IF convs = << >> \/ input = Raised THEN input
  ELSE TrunkForward(Tail(convs),
                    IF Head(convs).type = "ConvLayer" THEN ConvLayerForward(Head(convs), input)
                    ELSE ResBlockForward(Head(convs), input))

\* The minibatch-stddev feature concatenated to out (Discriminator.forward
\* lines 840-848, Encoder.forward lines 975-983).
StddevConcat(input, stddev_group, stddev_feat) ==
  IF Len(input) # 4 THEN Raised
  ELSE
    LET batch == input[1]
        channel == input[2]
        height == input[3]
        width == input[4]
        group == Min(batch, stddev_group)
        known == group * stddev_feat * (channel \div stddev_feat) * height * width
    IN  IF known = 0 THEN Raised
        ELSE IF Prod(input) % known # 0 THEN Raised   \* out.view(group, -1, ...)
        ELSE LET M == Prod(input) \div known
                 \* var(0): [M, f, C // f, h, w]; mean keeps dims: [M, f, 1, 1, 1];
                 \* squeeze(2): [M, f, 1, 1]; repeat(group, 1, h, w)
                 stddev == <<M * group, stddev_feat, height, width>>
             IN  IF stddev[1] # batch THEN Raised    \* torch.cat([out, stddev], 1)
                 ELSE <<batch, channel + stddev_feat, height, width>>

\* Reshape.forward: input.view(input.shape[0], -1)
ReshapeForward(input) == <<Head(input), Prod(Tail(input))>>

\* Squeeze.forward: torch.squeeze(input) drops every dimension of size 1.
SqueezeForward(input) == SelectSeq(input, LAMBDA d : d # 1)

\* nn.AvgPool2d(4) on [N, C, H, W].
AvgPool2dForward(input) ==
  IF Len(input) # 4 THEN Raised
  ELSE IF input[3] < 4 \/ input[4] < 4 THEN Raised
  ELSE <<input[1], input[2], input[3] \div 4, input[4] \div 4>>

\* The shapes fused_leaky_relu(out, bias) can return: elementwise on a
\* batched input; on a 1-D input the bias may broadcast a leading 1 in.
FusedLeakyReluShapes(shape) ==
  IF Len(shape) = 1 THEN {shape, <<1>> \o shape} ELSE {shape}

\* EqualLinear.forward: the shapes it can return.
EqualLinearForward(m, input) ==
  IF input = Raised \/ Len(input) < 1 THEN {Raised}
  ELSE IF input[Len(input)] # m.in_dim THEN {Raised}
  ELSE LET o == SubSeq(input, 1, Len(input) - 1) \o <<m.out_dim>>
       IN  IF m.activation THEN FusedLeakyReluShapes(o) ELSE {o}

EqualLinearInit(in_dim, out_dim, activation) ==
  [type |-> "EqualLinear", in_dim |-> in_dim, out_dim |-> out_dim, activation |-> activation]

HeadLayer(type) == [type |-> type, in_dim |-> 0, out_dim |-> 0, activation |-> FALSE]

\* One layer of final_linear: the shapes it can return.
HeadLayerForward(m, input) ==
  IF input = Raised THEN {Raised}
  ELSE CASE m.type = "Reshape" -> {ReshapeForward(input)}
         [] m.type = "AvgPool2d" -> {AvgPool2dForward(input)}
         [] m.type = "Squeeze" -> {SqueezeForward(input)}
         [] m.type = "EqualLinear" -> EqualLinearForward(m, input)

RECURSIVE HeadForward(_, _)
\* nn.Sequential over final_linear: the shapes it can return.
HeadForward(layers, input) ==
  IF layers = << >> THEN {input}
  ELSE UNION {HeadForward(Tail(layers), o) : o \in HeadLayerForward(Head(layers), input)}

\* ----------------------------------------------------------- Discriminator
DiscriminatorPhis == {"lin1", "lin2", "lin4", "avg1", "avg2"}

\* The if/elif chain of Discriminator.__init__ over which_phi; << >> when
\* no branch matches (self.final_linear is then never assigned).
DiscriminatorHead(which_phi) ==
  LET c == channels[4]
  IN  CASE which_phi = "lin1" ->
             <<HeadLayer("Reshape"), EqualLinearInit(c * 4 * 4, 1, FALSE)>>
        [] which_phi = "lin2" ->
             <<HeadLayer("Reshape"), EqualLinearInit(c * 4 * 4, c, TRUE),
               EqualLinearInit(c, 1, FALSE)>>
        [] which_phi = "lin4" ->
             <<HeadLayer("Reshape"), EqualLinearInit(c * 4 * 4, c, TRUE),
               EqualLinearInit(c, c, TRUE), EqualLinearInit(c, c, TRUE),
               EqualLinearInit(c, 1, FALSE)>>
        [] which_phi = "avg1" ->
             <<HeadLayer("AvgPool2d"), HeadLayer("Squeeze"), EqualLinearInit(c, 1, FALSE)>>
        [] which_phi = "avg2" ->
             <<HeadLayer("AvgPool2d"), HeadLayer("Squeeze"), EqualLinearInit(c, c, TRUE),
               EqualLinearInit(c, 1, FALSE)>>
        [] OTHER -> << >>

\* Discriminator.__init__; NoObject when it raises (channels[size] of a
\* missing key).
DiscriminatorInit(size, which_phi, stddev_group, architecture) ==
  IF size \notin DOMAIN channels THEN NoObject
  ELSE [cls |-> "Discriminator", size |-> size, which_phi |-> which_phi,
        architecture |-> architecture,
        convs |-> TrunkInit(size, architecture),
        stddev_group |-> stddev_group, stddev_feat |-> 1,
        final_conv |-> ConvLayerInit(channels[4] + 1, channels[4], 3, FALSE),
        has_final_linear |-> which_phi \in DiscriminatorPhis,
        final_linear |-> DiscriminatorHead(which_phi)]

\* ------------------------------------------------------------------ Encoder
EncoderPhis == {"avg0", "avg1", "lin1", "lin2"}
LatentSpaces == {"w", "p", "pn", "z"}

\* The if/elif chain of Encoder.__init__ over which_phi, for a head width
\* of width = latent_full * rep_mul.
EncoderHead(which_phi, width) ==
  LET c == channels[4]
  IN  CASE which_phi = "avg0" -> <<HeadLayer("AvgPool2d"), HeadLayer("Squeeze")>>
        [] which_phi = "avg1" ->
             <<HeadLayer("AvgPool2d"), HeadLayer("Squeeze"), EqualLinearInit(c, width, FALSE)>>
        [] which_phi = "lin1" ->
             <<HeadLayer("Reshape"), EqualLinearInit(c * 4 * 4, width, FALSE)>>
        [] which_phi = "lin2" ->
             <<HeadLayer("Reshape"), EqualLinearInit(c * 4 * 4, c, TRUE),
               EqualLinearInit(c, width, FALSE)>>
        [] OTHER -> << >>

\* Encoder.__init__ for a configuration record; NoObject when it raises:
\* channels[size] of a missing key, which_latent neither 'w_plus' nor
\* 'w_tied', register_buffer of a pca_state that is neither a Tensor nor
\* None, the latent_space assert, the avg0 assert, an unknown which_phi.
EncoderInit(c) ==
  IF c.size \notin DOMAIN channels THEN NoObject
  ELSE
    LET log_size == Log2Floor(c.size)
        n_latent == log_size * 2 - 2
        latent_full == IF c.which_latent = "w_plus" THEN c.style_dim * n_latent
                       ELSE c.style_dim
        rep_mul == IF c.reparameterization THEN 2 ELSE 1
        final_in == channels[4] + (IF c.stddev_group > 1 THEN 1 ELSE 0)
    IN  IF c.which_latent \notin {"w_plus", "w_tied"} THEN NoObject
        ELSE IF c.pca_state \notin {"None", "Tensor"} THEN NoObject
        ELSE IF ~(c.latent_space \in LatentSpaces \/ c.pca_state # "None") THEN NoObject
        ELSE IF c.which_phi = "avg0" /\ channels[4] # latent_full * rep_mul THEN NoObject
        ELSE IF c.which_phi \notin EncoderPhis THEN NoObject
        ELSE [cls |-> "Encoder", size |-> c.size, style_dim |-> c.style_dim,
              n_latent |-> n_latent, which_latent |-> c.which_latent,
              which_phi |-> c.which_phi, latent_full |-> latent_full,
              reparameterization |-> c.reparameterization,
              return_tuple |-> c.return_tuple,
              latent_space |-> c.latent_space, pca_state |-> c.pca_state,
              variational |-> c.variational,
              convs |-> TrunkInit(c.size, "resnet"),
              stddev_group |-> c.stddev_group, stddev_feat |-> c.stddev_feat,
              final_conv |-> ConvLayerInit(final_in, channels[4], 3, FALSE),
              final_linear |-> EncoderHead(c.which_phi, latent_full * rep_mul)]

\* Encoder.latent_forward: the shape it returns; << >> stands for None (no
\* branch matches), Raised for the 'pn' branch, whose pca_state['Lambda']
\* indexes a buffer (a Tensor or None) with a string.
latent_forward(style, latent_space) ==
  IF latent_space \in {"w", "z"} THEN style
  ELSE IF latent_space = "p" THEN style
  ELSE IF latent_space = "pn" THEN Raised
  ELSE << >>

\* ------------------------------------------------------------------ state
VARIABLES
  pc,       \* where the caller / the running forward call is
  obj,      \* the module that was constructed (NoObject: none)
  args,     \* the arguments of the forward call
  styles,   \* Generator.forward: the styles after mapping and truncation
  noise,    \* Generator.forward: the per-layer noise list in use
  latent,   \* Generator.forward: the per-block latent [N, n, d] and its rows
  out,      \* the running feature map's shape
  skip,     \* Generator.forward: the running skip image's shape (<< >>: None)
  inject_index, \* Generator.forward: the cut index in use
  i,        \* Generator.forward: the loop's latent index
  stage,    \* Generator.forward: iterations of the loop completed
  blocks,   \* the blocks run so far by this call, in order
  result,   \* what the call returned
  err,      \* "" or the step at which the call / the constructor raised
  ref       \* the outcome of an earlier call the caller kept (with its args)

vars == <<pc, obj, args, styles, noise, latent, out, skip, inject_index, i, stage,
          blocks, result, err, ref>>

NoArgs == [kind |-> "None"]
NoResult == [kind |-> "None"]
NoLatent == [shape |-> << >>, rows |-> << >>]

\* The frame of a call that has not started.
FreshFrame ==
  /\ args' = NoArgs
  /\ styles' = << >>
  /\ noise' = << >>
  /\ latent' = NoLatent
  /\ out' = << >>
  /\ skip' = << >>
  /\ inject_index' = 0
  /\ i' = 0
  /\ stage' = 0
  /\ blocks' = << >>
  /\ result' = NoResult

Init ==
  /\ pc = "idle"
  /\ obj = NoObject
  /\ args = NoArgs
  /\ styles = << >>
  /\ noise = << >>
  /\ latent = NoLatent
  /\ out = << >>
  /\ skip = << >>
  /\ inject_index = 0
  /\ i = 0
  /\ stage = 0
  /\ blocks = << >>
  /\ result = NoResult
  /\ err = ""
  /\ ref = NoResult

\* The caller constructs a module when it holds none.
CanConstruct == pc = "idle"

\* The caller starts a call on the module it holds when none is running.
CanCall == pc = "ready"

\* ---------------------------------------------------- inputs (bounded sets)
Sizes == {0, 1, 2, 3, 4, 6, 8, 12, 16, 32, 64, 128, 256, 512, 1024, 2048}
StyleDims == {512}
Batches == 1..MaxBatch

\* A latent / style tensor supplied by the caller.
Tensor(shape, src, maps) == [shape |-> shape, src |-> src, maps |-> maps, trunc |-> FALSE]

\* Numbers of per-block vectors a caller may supply to generator g.
BlockCounts(g) == {m \in {g.n_latent - 1, g.n_latent, g.n_latent + 1} : m >= 1}

\* Shapes of a single supplied style for batch size N.
StyleShapes(g, N) ==
  {<<N, w>> : w \in {g.style_dim - 1, g.style_dim, g.style_dim + 1}}
  \cup {<<N, m * g.style_dim>> : m \in BlockCounts(g)}
  \cup {<<N, m, w>> : m \in BlockCounts(g), w \in {g.style_dim, g.style_dim + 1}}

\* Explicit noise lists: make_noise()'s maps cut to, or extended to, L maps.
NoiseLists(g) ==
  LET full == make_noise(g)
      lens == {L \in {0, 1, 2, g.num_layers - 1, g.num_layers, g.num_layers + 1} : L >= 0}
  IN  {[j \in 1..L |-> IF j <= Len(full) THEN full[j] ELSE 0] : L \in lens}

\* inject_index values a caller may pass ({}: None).
InjectArgs(g) == {{}} \cup {{j} : j \in (-1)..(Max(g.n_latent, 0) + 1)}

GeneratorCalls(g) ==
  LET single ==
        {[kind |-> "Generator.forward",
          styles |-> <<Tensor(sh, 1, 0)>>, input_is_latent |-> il, from_z |-> << >>,
          inject_index |-> {}, truncation |-> tr,
          noise_given |-> ng, noise |-> nz, randomize_noise |-> rn,
          return_latents |-> rl] :
           sh \in UNION {StyleShapes(g, N) : N \in Batches}, il \in BOOLEAN,
           tr \in BOOLEAN, ng \in {FALSE}, nz \in {<< >>}, rn \in BOOLEAN, rl \in BOOLEAN}
      mixing ==
        {[kind |-> "Generator.forward",
          styles |-> <<Tensor(<<N, g.style_dim>>, 1, 0), Tensor(<<N, g.style_dim>>, 2, 0)>>,
          input_is_latent |-> FALSE, from_z |-> << >>,
          inject_index |-> ii, truncation |-> tr,
          noise_given |-> FALSE, noise |-> << >>, randomize_noise |-> TRUE,
          return_latents |-> TRUE] :
           N \in Batches, ii \in InjectArgs(g), tr \in BOOLEAN}
      noisy ==
        {[kind |-> "Generator.forward",
          styles |-> <<Tensor(<<N, g.style_dim>>, 1, 0)>>, input_is_latent |-> FALSE,
          from_z |-> << >>,
          inject_index |-> {}, truncation |-> FALSE,
          noise_given |-> TRUE, noise |-> nz, randomize_noise |-> TRUE,
          return_latents |-> FALSE] :
           N \in Batches, nz \in NoiseLists(g)}
  IN  single \cup mixing \cup noisy

\* The calls of a round-trip comparison on latent z = Tensor([N, style_dim]):
\* forward([z]), and forward([get_latent(z)], input_is_latent=True); from_z
\* remembers the z the caller started from.
RoundTripCalls(g) ==
  LET zs == {Tensor(<<N, g.style_dim>>, src, 0) : N \in Batches, src \in 1..MaxZ}
      rest == {[noise_given |-> ng, noise |-> nz, randomize_noise |-> rn] :
                 ng \in {FALSE}, nz \in {<< >>}, rn \in BOOLEAN}
              \cup {[noise_given |-> TRUE, noise |-> make_noise(g), randomize_noise |-> TRUE]}
      call(z, via, r) ==
        [kind |-> "Generator.forward",
         styles |-> IF via THEN <<get_latent(g, z)>> ELSE <<z>>,
         input_is_latent |-> via, from_z |-> <<z>>,
         inject_index |-> {}, truncation |-> FALSE,
         noise_given |-> r.noise_given, noise |-> r.noise,
         randomize_noise |-> r.randomize_noise, return_latents |-> FALSE]
  IN  {call(z, via, r) : z \in zs, via \in BOOLEAN, r \in rest}

\* ----------------------------------------------------- Generator: actions
Generator_Construct ==
  /\ CanConstruct
  /\ \E size \in Sizes, style_dim \in StyleDims :
       /\ obj' = GeneratorInit(size, style_dim)
       /\ pc' = IF obj' = NoObject THEN "ctor_failed" ELSE "ready"
       /\ err' = IF obj' = NoObject THEN "Generator.__init__" ELSE ""
  /\ FreshFrame
  /\ UNCHANGED ref

\* Mutant: the mapping network applied whatever input_is_latent says.
MappedStyles_AlwaysMap(g, a) ==
  LET mapped == [k \in DOMAIN a.styles |-> get_latent(g, a.styles[k])]
  IN  IF \E k \in DOMAIN mapped : mapped[k].shape = Raised
        THEN [k \in DOMAIN mapped |-> RaisedTensor]
      ELSE IF a.truncation THEN [k \in DOMAIN mapped |-> Truncate(g, mapped[k])]
      ELSE mapped

\* Lines 547-566 of Generator.forward: mapping and truncation of the styles.
MappedStyles(g, a) ==
  LET mapped == IF a.input_is_latent THEN a.styles
                ELSE [k \in DOMAIN a.styles |-> get_latent(g, a.styles[k])]
  IN  IF \E k \in DOMAIN mapped : mapped[k].shape = Raised
        THEN [k \in DOMAIN mapped |-> RaisedTensor]
      ELSE IF a.truncation THEN [k \in DOMAIN mapped |-> Truncate(g, mapped[k])]
      ELSE mapped

\* Lines 568-587 of Generator.forward: the per-block latents it can build
\* (several when inject_index is drawn at random).
BuiltLatents(g, a, st) ==
  IF \E k \in DOMAIN st : st[k].shape = Raised
    THEN {[latent |-> RaisedLatent, inject_index |-> 0]}
  ELSE IF Len(st) < 2
    THEN {[latent |-> SingleLatent(g, st[1]), inject_index |-> g.n_latent]}
  ELSE IF a.inject_index = {}
    THEN IF RandomInject(g) = {} THEN {[latent |-> RaisedLatent, inject_index |-> 0]}
         ELSE {[latent |-> MixLatent(g, st[1], st[2], j), inject_index |-> j] :
                 j \in RandomInject(g)}
  ELSE {[latent |-> MixLatent(g, st[1], st[2], j), inject_index |-> j] :
          j \in a.inject_index}

\* Lines 547-587 of Generator.forward, for a call drawn from the set calls.
BeginForward(calls) ==
  /\ CanCall
  /\ obj.cls = "Generator"
  /\ \E a \in calls :
       LET st == MappedStyles(obj, a)
       IN  \E b \in BuiltLatents(obj, a, st) :
             /\ args' = a
             /\ styles' = st
             /\ noise' = NoiseList(obj, a.noise_given, a.noise, a.randomize_noise)
             /\ latent' = b.latent
             /\ inject_index' = b.inject_index
             /\ pc' = IF b.latent.shape = Raised THEN "error" ELSE "conv1"
             /\ err' = IF b.latent.shape = Raised THEN "latent" ELSE ""
  /\ out' = << >>
  /\ skip' = << >>
  /\ i' = 0
  /\ stage' = 0
  /\ blocks' = << >>
  /\ result' = NoResult
  /\ UNCHANGED <<obj, ref>>

Generator_Begin == BeginForward(GeneratorCalls(obj))

\* forward([z]) and forward([get_latent(z)], input_is_latent=True) with the
\* same other arguments: what a round-trip comparison calls.
Generator_BeginRoundTrip == BeginForward(RoundTripCalls(obj))

\* A block that ran: its name, the latent index and row it consumed, the
\* index of the noise map it was given (-1: none) and its output's shape.
Block(name, idx, nz, shape) ==
  [name |-> name, idx |-> idx, row |-> latent.rows[idx + 1], nz |-> nz, shape |-> shape]

\* Lines 589-590: the constant input and the first styled conv.
Generator_Conv1 ==
  /\ pc = "conv1"
  /\ LET input == <<latent.shape[1], obj.input[2], obj.input[3], obj.input[4]>>
         r == IF Len(noise) < 1 THEN Raised
              ELSE StyledConvForward(obj.conv1, input, LatentAt(latent, 0), noise[1])
     IN  IF r = Raised
           THEN /\ pc' = "error" /\ err' = "conv1"
                /\ UNCHANGED <<out, blocks>>
         ELSE /\ pc' = "to_rgb1" /\ err' = ""
              /\ out' = r
              /\ blocks' = Append(blocks, Block("conv1", 0, 0, r))
  /\ UNCHANGED <<obj, args, styles, noise, latent, skip, inject_index, i, stage, result, ref>>

\* Lines 592-594: the first to-RGB; i = 1.
Generator_ToRGB1 ==
  /\ pc = "to_rgb1"
  /\ LET r == ToRGBForward(obj.to_rgb1, out, LatentAt(latent, 1), << >>)
     IN  IF r = Raised
           THEN /\ pc' = "error" /\ err' = "to_rgb1"
                /\ UNCHANGED <<skip, blocks, i>>
         ELSE /\ pc' = "loop" /\ err' = ""
              /\ skip' = r
              /\ i' = 1
              /\ blocks' = Append(blocks, Block("to_rgb1", 1, -1, r))
  /\ UNCHANGED <<obj, args, styles, noise, latent, out, inject_index, stage, result, ref>>

\* Mutant: every block of a stage reading the index after the one the block
\* before it read.
StageIndex_Next(index, block) ==
  CASE block = "up_conv" -> index + 1
    [] block = "conv" -> index + 2
    [] block = "to_rgb" -> index + 3

\* Lines 598-600: the latent index a block of the loop's body reads, index
\* being the loop's running i: latent[:, i], latent[:, i + 1], latent[:, i + 2].
StageIndex(index, block) ==
  CASE block = "up_conv" -> index
    [] block = "conv" -> index + 1
    [] block = "to_rgb" -> index + 2

\* Line 598: the stage's upsampling styled conv, while the zip yields.
Generator_StageConv1 ==
  /\ pc = "loop"
  /\ stage < ZipLen(obj, noise)
  /\ LET r == StyledConvForward(obj.convs[2 * stage + 1], out,
                                LatentAt(latent, StageIndex(i, "up_conv")),
                                noise[2 * stage + 2])
     IN  IF r = Raised
           THEN /\ pc' = "error" /\ err' = "convs"
                /\ UNCHANGED <<out, blocks>>
         ELSE /\ pc' = "conv2" /\ err' = ""
              /\ out' = r
              /\ blocks' = Append(blocks, Block("up_conv", StageIndex(i, "up_conv"), 2 * stage + 1, r))
  /\ UNCHANGED <<obj, args, styles, noise, latent, skip, inject_index, i, stage, result, ref>>

\* Line 599: the stage's same-resolution styled conv.
Generator_StageConv2 ==
  /\ pc = "conv2"
  /\ LET r == StyledConvForward(obj.convs[2 * stage + 2], out,
                                LatentAt(latent, StageIndex(i, "conv")),
                                noise[2 * stage + 3])
     IN  IF r = Raised
           THEN /\ pc' = "error" /\ err' = "convs"
                /\ UNCHANGED <<out, blocks>>
         ELSE /\ pc' = "to_rgb" /\ err' = ""
              /\ out' = r
              /\ blocks' = Append(blocks, Block("conv", StageIndex(i, "conv"), 2 * stage + 2, r))
  /\ UNCHANGED <<obj, args, styles, noise, latent, skip, inject_index, i, stage, result, ref>>

\* Lines 600-602: the stage's to-RGB with the running skip; i += 2.
Generator_StageToRGB ==
  /\ pc = "to_rgb"
  /\ LET r == ToRGBForward(obj.to_rgbs[stage + 1], out,
                            LatentAt(latent, StageIndex(i, "to_rgb")), skip)
     IN  IF r = Raised
           THEN /\ pc' = "error" /\ err' = "to_rgbs"
                /\ UNCHANGED <<skip, blocks, i, stage>>
         ELSE /\ pc' = "loop" /\ err' = ""
              /\ skip' = r
              /\ i' = i + 2
              /\ stage' = stage + 1
              /\ blocks' = Append(blocks, Block("to_rgb", StageIndex(i, "to_rgb"), -1, r))
  /\ UNCHANGED <<obj, args, styles, noise, latent, out, inject_index, result, ref>>

\* What the image is computed from: the blocks' rows and noise, in order.
\* Fresh noise (a None entry) is a new draw in every call.
ImageOf(bl, nz) ==
  [rows |-> [k \in DOMAIN bl |-> bl[k].row],
   noise |-> [k \in DOMAIN bl |->
                IF bl[k].nz < 0 THEN -1
                ELSE nz[bl[k].nz + 1]]]

\* Lines 604-610: the zip is exhausted; return (image, latent or None).
Generator_Return ==
  /\ pc = "loop"
  /\ stage >= ZipLen(obj, noise)
  /\ result' = [kind |-> "Generator.forward",
                image |-> skip,
                content |-> ImageOf(blocks, noise),
                latent |-> IF args.return_latents THEN latent ELSE NoLatent]
  /\ pc' = "done"
  /\ err' = ""
  /\ UNCHANGED <<obj, args, styles, noise, latent, out, skip, inject_index, i, stage, blocks, ref>>

\* ------------------------------------------------- Discriminator: actions
Architectures == {"resnet", "orig"}

\* Scoring-head names a caller may pass: the five the code knows and 'avg',
\* the name the class's docstring uses.
DiscriminatorPhiArgs == DiscriminatorPhis \cup {"avg"}

Discriminator_Construct ==
  /\ CanConstruct
  /\ \E size \in Sizes, which_phi \in DiscriminatorPhiArgs,
        stddev_group \in 1..MaxStddevGroup, architecture \in Architectures :
       /\ obj' = DiscriminatorInit(size, which_phi, stddev_group, architecture)
       /\ pc' = IF obj' = NoObject THEN "ctor_failed" ELSE "ready"
       /\ err' = IF obj' = NoObject THEN "Discriminator.__init__" ELSE ""
  /\ FreshFrame
  /\ UNCHANGED ref

\* One step of a Discriminator / Encoder forward: out becomes o and the call
\* moves to next, or raises at step.
StepTo(o, next, step) ==
  /\ out' = o
  /\ pc' = IF o = Raised THEN "error" ELSE next
  /\ err' = IF o = Raised THEN step ELSE ""

\* Line 838: out = self.convs(input), on an image [N, 3, size, size].
Discriminator_Convs ==
  /\ CanCall
  /\ obj.cls = "Discriminator"
  /\ \E N \in Batches :
       LET input == <<N, 3, obj.size, obj.size>>
       IN  /\ args' = [kind |-> "Discriminator.forward", input |-> input]
           /\ StepTo(TrunkForward(obj.convs, input), "d_stddev", "convs")
  /\ UNCHANGED <<obj, styles, noise, latent, skip, inject_index, i, stage, blocks,
                 result, ref>>

\* Lines 840-848: the minibatch-stddev channel.
Discriminator_Stddev ==
  /\ pc = "d_stddev"
  /\ StepTo(StddevConcat(out, obj.stddev_group, obj.stddev_feat), "d_final_conv", "stddev")
  /\ UNCHANGED <<obj, args, styles, noise, latent, skip, inject_index, i, stage, blocks,
                 result, ref>>

\* Line 850: out = self.final_conv(out)
Discriminator_FinalConv ==
  /\ pc = "d_final_conv"
  /\ StepTo(ConvLayerForward(obj.final_conv, out), "d_final_linear", "final_conv")
  /\ UNCHANGED <<obj, args, styles, noise, latent, skip, inject_index, i, stage, blocks,
                 result, ref>>

\* Lines 851-853: out = self.final_linear(out); return out.  The attribute
\* does not exist when no which_phi branch assigned it.
Discriminator_FinalLinear ==
  /\ pc = "d_final_linear"
  /\ \E o \in (IF obj.has_final_linear THEN HeadForward(obj.final_linear, out)
                ELSE {Raised}) :
       /\ StepTo(o, "done", "final_linear")
       /\ result' = IF o = Raised THEN NoResult
                    ELSE [kind |-> "Discriminator.forward", score |-> o]
  /\ UNCHANGED <<obj, args, styles, noise, latent, skip, inject_index, i, stage, blocks,
                 ref>>

\* ------------------------------------------------------- Encoder: actions
\* Constructor arguments: every size and scoring head with the other
\* arguments at their defaults, and every combination of the other
\* arguments at sizes 4 and 8.
EncoderConfigs ==
  {[size |-> size, style_dim |-> 512, which_latent |-> wl, which_phi |-> phi,
    stddev_group |-> sg, stddev_feat |-> 1, reparameterization |-> FALSE,
    return_tuple |-> TRUE, latent_space |-> "w", pca_state |-> "None",
    variational |-> FALSE] :
     size \in Sizes, wl \in {"w_plus", "w_tied"}, phi \in EncoderPhis \cup {"avg"},
     sg \in 1..MaxStddevGroup}
  \cup
  {[size |-> size, style_dim |-> sd, which_latent |-> wl, which_phi |-> phi,
    stddev_group |-> sg, stddev_feat |-> 1, reparameterization |-> rp,
    return_tuple |-> rt, latent_space |-> ls, pca_state |-> pca,
    variational |-> va] :
     size \in {4, 8}, sd \in {256, 512}, wl \in {"w_plus", "w_tied", "wb"},
     phi \in EncoderPhis, sg \in {MaxStddevGroup}, rp \in BOOLEAN, rt \in BOOLEAN,
     va \in BOOLEAN,
     ls \in LatentSpaces \cup {"q"}, pca \in {"None", "Tensor", "dict"}}

Encoder_Construct ==
  /\ CanConstruct
  /\ \E c \in EncoderConfigs :
       /\ obj' = EncoderInit(c)
       /\ pc' = IF obj' = NoObject THEN "ctor_failed" ELSE "ready"
       /\ err' = IF obj' = NoObject THEN "Encoder.__init__" ELSE ""
  /\ FreshFrame
  /\ UNCHANGED ref

\* Line 969: out = self.convs(input), on an image [N, 3, size, size].
Encoder_Convs ==
  /\ CanCall
  /\ obj.cls = "Encoder"
  /\ \E N \in Batches :
       LET input == <<N, 3, obj.size, obj.size>>
       IN  /\ args' = [kind |-> "Encoder.forward", input |-> input]
           /\ StepTo(TrunkForward(obj.convs, input), "e_stddev", "convs")
  /\ UNCHANGED <<obj, styles, noise, latent, skip, inject_index, i, stage, blocks,
                 result, ref>>

\* Lines 974-983: the minibatch-stddev channel, when stddev_group > 1.
Encoder_Stddev ==
  /\ pc = "e_stddev"
  /\ StepTo(IF obj.stddev_group > 1
              THEN StddevConcat(out, obj.stddev_group, obj.stddev_feat)
            ELSE out,
            "e_final_conv", "stddev")
  /\ UNCHANGED <<obj, args, styles, noise, latent, skip, inject_index, i, stage, blocks,
                 result, ref>>

\* Line 985: out = self.final_conv(out)
Encoder_FinalConv ==
  /\ pc = "e_final_conv"
  /\ StepTo(ConvLayerForward(obj.final_conv, out), "e_final_linear", "final_conv")
  /\ UNCHANGED <<obj, args, styles, noise, latent, skip, inject_index, i, stage, blocks,
                 result, ref>>

\* out.chunk(2, dim=1): the chunks' shapes (Raised in a 1-tuple when the
\* tensor has no dimension 1).
Chunk2(o) ==
  IF Len(o) < 2 THEN <<Raised>>
  ELSE LET size == (o[2] + 1) \div 2
       IN  IF o[2] <= size THEN <<o>>
           ELSE <<[o EXCEPT ![2] = size], [o EXCEPT ![2] = o[2] - size]>>

\* Lines 993-1000: what Encoder.forward returns for the head's output o.
\* code = << >> stands for None.
EncoderReturn(e, o) ==
  IF e.reparameterization
    THEN LET ch == Chunk2(o)
         IN  IF ch[1] = Raised THEN [kind |-> "raised"]
             ELSE [kind |-> "Encoder.forward", form |-> "chunks", parts |-> ch]
  ELSE LET code == latent_forward(o, e.latent_space)
       IN  IF code = Raised THEN [kind |-> "raised"]
           ELSE IF e.return_tuple
             THEN [kind |-> "Encoder.forward", form |-> "tuple", parts |-> <<code, << >> >>]
           ELSE [kind |-> "Encoder.forward", form |-> "bare", parts |-> <<code>>]

\* Lines 989-1000: the head, then the return.
Encoder_FinalLinear ==
  /\ pc = "e_final_linear"
  /\ \E o \in HeadForward(obj.final_linear, out) :
       LET r == IF o = Raised THEN [kind |-> "raised"] ELSE EncoderReturn(obj, o)
       IN  /\ StepTo(IF r.kind = "raised" THEN Raised ELSE o, "done", "final_linear")
           /\ result' = IF r.kind = "raised" THEN NoResult ELSE r
  /\ UNCHANGED <<obj, args, styles, noise, latent, skip, inject_index, i, stage, blocks,
                 ref>>

\* ------------------------------------------------- lone FIR layers: actions
KernelLens == 1..MaxKernel
Factors == 1..MaxFactor
KernelSizes == 1..MaxConvKernel

Upsample_Construct ==
  /\ CanConstruct
  /\ \E K \in KernelLens, factor \in Factors :
       obj' = [cls |-> "Upsample", layer |-> UpsampleInit(K, factor),
               site |-> "Upsample", kernel_size |-> 0]
  /\ pc' = "ready"
  /\ err' = ""
  /\ FreshFrame
  /\ UNCHANGED ref

Downsample_Construct ==
  /\ CanConstruct
  /\ \E K \in KernelLens, factor \in Factors :
       obj' = [cls |-> "Downsample", layer |-> DownsampleInit(K, factor),
               site |-> "Downsample", kernel_size |-> 0]
  /\ pc' = "ready"
  /\ err' = ""
  /\ FreshFrame
  /\ UNCHANGED ref

\* The Blur instances the code constructs: in ModulatedConv2d.__init__ (the
\* upsample and the downsample branch) and in ConvLayer.__init__.
Blur_Construct ==
  /\ CanConstruct
  /\ \E K \in KernelLens, k \in KernelSizes :
       \/ obj' = [cls |-> "Blur", layer |-> ModulatedConv2dInit(1, 1, k, 1, TRUE, FALSE, K).blur,
                  site |-> "ModulatedConv2d.upsample", kernel_size |-> k]
       \/ obj' = [cls |-> "Blur", layer |-> ModulatedConv2dInit(1, 1, k, 1, FALSE, TRUE, K).blur,
                  site |-> "ModulatedConv2d.downsample", kernel_size |-> k]
       \/ obj' = [cls |-> "Blur", layer |-> BlurInit(K, DownBlurPad(K, k)),
                  site |-> "ConvLayer.downsample", kernel_size |-> k]
  /\ pc' = "ready"
  /\ err' = ""
  /\ FreshFrame
  /\ UNCHANGED ref

\* Upsample.forward, Downsample.forward, Blur.forward on [1, 1, S, S].
LayerForward(m, S) ==
  CASE m.kind = "Upsample" -> UpsampleForward(m, S)
    [] m.kind = "Downsample" -> DownsampleForward(m, S)
    [] m.kind = "Blur" -> BlurForward(m, S)

Layer_Forward ==
  /\ CanCall
  /\ obj.cls \in {"Upsample", "Downsample", "Blur"}
  /\ \E S \in 1..MaxInput :
       /\ args' = [kind |-> "layer.forward", input |-> <<1, 1, S, S>>]
       /\ out' = <<1, 1, LayerForward(obj.layer, S), LayerForward(obj.layer, S)>>
  /\ pc' = "done"
  /\ err' = ""
  /\ UNCHANGED <<obj, styles, noise, latent, skip, inject_index, i, stage, blocks,
                 result, ref>>

\* -------------------------------------------- lone ModulatedConv2d: actions
\* Values of self.weight (torch.randn) and of self.modulation(style) (an
\* EqualLinear with bias_init = 1 of a random style), in tenths.
WeightValues == {-10, 1, 10}
ModulationValues == {5, 10}

\* self.weight[0, o] of shape [in_channel, k, k], flattened, with one value
\* per input channel.
WeightOf(per_channel, kernel_size) ==
  [e \in 1..(Len(per_channel) * kernel_size * kernel_size) |->
     per_channel[(e - 1) \div (kernel_size * kernel_size) + 1]]

RECURSIVE SumSeq(_)
SumSeq(s) == IF s = << >> THEN 0 ELSE Head(s) + SumSeq(Tail(s))

\* (self.weight * style).pow(2).sum([2, 3, 4]) for one sample and one output
\* channel, in units of 1e-4; self.scale ** 2 = 1 / fan_in is kept apart.
ModulatedSq(m, style) ==
  LET kk == m.conv.kernel_size * m.conv.kernel_size
  IN  SumSeq([e \in DOMAIN m.weight |->
                (m.weight[e] * style[(e - 1) \div kk + 1])
                * (m.weight[e] * style[(e - 1) \div kk + 1])])

\* Mutant: the demodulation without the 1e-8 under the rsqrt.
DemodSq_NoEps(m, style) ==
  LET fan_in == m.conv.in_channel * m.conv.kernel_size * m.conv.kernel_size
  IN  [num |-> InvEpsFixed * InvEpsFixed * fan_in, den |-> InvEpsFixed * ModulatedSq(m, style)]

\* demod ** 2 = 1 / (weight.pow(2).sum([2, 3, 4]) + 1e-8), weight being
\* self.scale * self.weight * style, as the fraction num / den.
DemodSq(m, style) ==
  LET fan_in == m.conv.in_channel * m.conv.kernel_size * m.conv.kernel_size
  IN  [num |-> InvEpsFixed * InvEpsFixed * fan_in,
       den |-> InvEpsFixed * ModulatedSq(m, style) + fan_in]

\* The squared norm over (in_channel, k, k) of the weight the convolution is
\* run with, for one sample and one output channel, as the fraction
\* num / den: the sum's variance when the taps it weighs are independent
\* with variance 1.  Without demodulation it is scale^2 * sum, in units of
\* 1e-4.
WeightNormSq(m, style) ==
  LET fan_in == m.conv.in_channel * m.conv.kernel_size * m.conv.kernel_size
      sq == ModulatedSq(m, style)
      d == DemodSq(m, style)
  IN  IF m.demodulate
        \* (sq / (10^4 * fan_in)) * (d.num / d.den)
        THEN [num |-> sq * (d.num \div (InvEpsFixed * fan_in)), den |-> d.den]
      ELSE [num |-> sq, den |-> fan_in]

\* ModulatedConv2d(in_channel, 1, kernel_size, style_dim, demodulate,
\* upsample, downsample, blur_kernel): every layout with a weight of ones on
\* one input channel, and every weight for the layouts a generator uses
\* (1x1 on up to MaxChannels input channels, 3x3 on one).
ModulatedConv2d_Construct ==
  /\ CanConstruct
  /\ \/ \E k \in KernelSizes, K \in KernelLens, up \in BOOLEAN, down \in BOOLEAN,
           sd \in StyleDims :
           obj' = [cls |-> "ModulatedConv2d",
                   conv |-> ModulatedConv2dInit(1, 1, k, sd, up, down, K),
                   demodulate |-> TRUE,
                   weight |-> WeightOf(<<10>>, k)]
     \/ \E C \in 1..MaxChannels, k \in {1, 3}, up \in BOOLEAN, dm \in BOOLEAN,
           sd \in StyleDims :
           \E w \in [1..(IF k = 1 THEN C ELSE 1) -> WeightValues] :
             obj' = [cls |-> "ModulatedConv2d",
                     conv |-> ModulatedConv2dInit(Len(w), 1, k, sd, up, FALSE, BlurKernelLen),
                     demodulate |-> dm,
                     weight |-> WeightOf(w, k)]
  /\ pc' = "ready"
  /\ err' = ""
  /\ FreshFrame
  /\ UNCHANGED ref

\* ModulatedConv2d.forward(input, style) on input [1, in_channel, H, H]:
\* the output's shape and the squared norm of the weight it was run with.
ModulatedConv2d_Forward ==
  /\ CanCall
  /\ obj.cls = "ModulatedConv2d"
  /\ \E H \in 1..MaxInput, s \in [1..obj.conv.in_channel -> ModulationValues] :
       LET input == <<1, obj.conv.in_channel, H, H>>
           o == ModulatedConv2dForward(obj.conv, input, <<1, obj.conv.style_dim>>)
       IN  /\ args' = [kind |-> "ModulatedConv2d.forward", input |-> input, style |-> s]
           /\ StepTo(o, "done", "ModulatedConv2d.forward")
           /\ result' = IF o = Raised THEN NoResult
                        ELSE [kind |-> "ModulatedConv2d.forward",
                              weight_sq |-> WeightNormSq(obj, s)]
  /\ UNCHANGED <<obj, styles, noise, latent, skip, inject_index, i, stage, blocks, ref>>

\* -------------------------------------------------------------- the caller
\* The caller takes the outcome of a finished call (a result or an
\* exception); the module stays usable for the next call.
Caller_Finish ==
  /\ pc \in {"done", "error"}
  /\ pc' = "ready"
  /\ err' = ""
  /\ FreshFrame
  /\ UNCHANGED <<obj, ref>>

\* The caller drops the module it holds, or the failed construction.
Caller_Drop ==
  /\ pc \in {"ready", "ctor_failed"}
  /\ pc' = "idle"
  /\ obj' = NoObject
  /\ err' = ""
  /\ ref' = NoResult
  /\ FreshFrame

\* The caller keeps the outcome of the call that just returned, to compare
\* a later call's outcome with it.
Caller_Keep ==
  /\ pc = "done"
  /\ ref # [args |-> args, result |-> result]
  /\ ref' = [args |-> args, result |-> result]
  /\ UNCHANGED <<pc, obj, args, styles, noise, latent, out, skip, inject_index, i,
                 stage, blocks, result, err>>

Next ==
  \/ Caller_Finish
  \/ Caller_Drop
  \/ Generator_Construct
  \/ Generator_Begin
  \/ Generator_Conv1
  \/ Generator_ToRGB1
  \/ Generator_StageConv1
  \/ Generator_StageConv2
  \/ Generator_StageToRGB
  \/ Generator_Return
  \/ Upsample_Construct
  \/ Downsample_Construct
  \/ Blur_Construct
  \/ Layer_Forward
  \/ ModulatedConv2d_Construct
  \/ ModulatedConv2d_Forward
  \/ Discriminator_Construct
  \/ Discriminator_Convs
  \/ Discriminator_Stddev
  \/ Discriminator_FinalConv
  \/ Discriminator_FinalLinear
  \/ Encoder_Construct
  \/ Encoder_Convs
  \/ Encoder_Stddev
  \/ Encoder_FinalConv
  \/ Encoder_FinalLinear

Spec == Init /\ [][Next]_vars

\* The round-trip comparison: the caller keeps one call's image and compares
\* a later call's image with it.
NextRoundTrip ==
  \/ Caller_Finish
  \/ Caller_Drop
  \/ Caller_Keep
  \/ Generator_Construct
  \/ Generator_BeginRoundTrip
  \/ Generator_Conv1
  \/ Generator_ToRGB1
  \/ Generator_StageConv1
  \/ Generator_StageConv2
  \/ Generator_StageToRGB
  \/ Generator_Return

SpecRoundTrip == Init /\ [][NextRoundTrip]_vars
\* ================================================================== claims
\* A Generator built for a resolution of the channel-width table.
Supported == obj.cls = "Generator" /\ obj.size \in DOMAIN channels

\* The batch size of the running Generator.forward call.
BatchOf(a) == a.styles[1].shape[1]

\* forward([z]) with a single latent of shape [N, style_dim] and noise=None.
C1_Call ==
  /\ args.kind = "Generator.forward"
  /\ Supported
  /\ Len(args.styles) = 1
  /\ ~args.input_is_latent
  /\ args.styles[1].shape = <<BatchOf(args), obj.style_dim>>
  /\ ~args.noise_given

\* C1: Generator(R).forward([z]) with z of shape [N, style_dim] never raises
\* and returns an image [N, 3, R, R]; the cascade starts at spatial size 4,
\* runs exactly log2(R) - 2 doubling stages, and after every stage the skip
\* image has the stage's size (it was upsampled before the addition).
C1_ImageShape ==
  C1_Call =>
    /\ pc # "error"
    /\ blocks # << >> => blocks[1].shape = <<BatchOf(args), channels[4], 4, 4>>
    /\ pc = "loop" =>
         /\ skip = <<BatchOf(args), 3, 4 * Pow2(stage), 4 * Pow2(stage)>>
         /\ out[3] = skip[3] /\ out[4] = skip[4]
    /\ pc = "done" =>
         /\ stage = Log2Floor(obj.size) - 2
         /\ result.image = <<BatchOf(args), 3, obj.size, obj.size>>

C1_Witness ==
  /\ C1_Call
  /\ pc = "done"
  /\ obj.size = 1024
  /\ stage = 8
  /\ result.image = <<2, 3, 1024, 1024>>

\* forward([A, B]) with inject_index unspecified or given in 0..n_latent.
C2_Call ==
  /\ args.kind = "Generator.forward"
  /\ Supported
  /\ Len(args.styles) = 2
  /\ \A j \in args.inject_index : 0 <= j /\ j <= obj.n_latent

\* C2: with two styles A and B the cut index is the one given, or one drawn
\* from 1..n_latent-1; the per-block latent has exactly n_latent rows, rows
\* 0..i-1 are the mapped A and rows i..n_latent-1 the mapped B.
C2_StyleMixing ==
  C2_Call =>
    /\ latent.shape # Raised
    /\ args.inject_index # {} => inject_index \in args.inject_index
    /\ args.inject_index = {} => inject_index \in 1..(obj.n_latent - 1)
    /\ latent.shape = <<BatchOf(args), obj.n_latent, obj.style_dim>>
    /\ Len(latent.rows) = obj.n_latent
    /\ \A j \in 1..obj.n_latent :
         /\ latent.rows[j].src = args.styles[IF j <= inject_index THEN 1 ELSE 2].src
         /\ latent.rows[j].maps = 1
         /\ latent.rows[j].part = 0

C2_Witness ==
  /\ C2_Call
  /\ pc = "done"
  /\ obj.size = 4
  /\ args.inject_index = {}
  /\ inject_index = 1
  /\ latent.rows[1].src = 1
  /\ latent.rows[2].src = 2

\* The noise of a call is the same in every call with these arguments: an
\* explicit list or the frozen buffers, no fresh draw.
NoiseFixed(a) == a.noise_given \/ ~a.randomize_noise

\* The call that just returned took get_latent(z) with input_is_latent=True,
\* and the kept call took the same z directly, the other arguments equal.
C3_Pair ==
  /\ pc = "done"
  /\ ref # NoResult
  /\ args.kind = "Generator.forward"
  /\ args.from_z # << >>
  /\ args.input_is_latent
  /\ ~ref.args.input_is_latent
  /\ ref.args = [args EXCEPT !.styles = args.from_z, !.input_is_latent = FALSE]
  /\ NoiseFixed(args)

\* C3: forward([get_latent(z)], input_is_latent=True) returns the image
\* forward([z]) returns: on both paths every block's style is z mapped
\* exactly once, and shape, styles and noise of the two images agree.
C3_RoundTrip ==
  C3_Pair =>
    /\ result.image = ref.result.image
    /\ result.content = ref.result.content
    /\ \A k \in DOMAIN result.content.rows :
         /\ result.content.rows[k].maps = 1
         /\ result.content.rows[k].src = args.from_z[1].src

C3_Witness ==
  /\ C3_Pair
  /\ obj.size = 8
  /\ result.image = <<2, 3, 8, 8>>
  /\ Len(result.content.rows) = 5

\* C4: Upsample.forward on spatial size S returns exactly S * factor and
\* Downsample.forward exactly floor(S / factor), for every kernel length,
\* factor and S of the bounded sets.
C4_ResampleSize ==
  (pc = "done" /\ args.kind = "layer.forward") =>
    /\ obj.cls = "Upsample" =>
         /\ out[3] = args.input[3] * obj.layer.factor
         /\ out[4] = args.input[4] * obj.layer.factor
    /\ obj.cls = "Downsample" =>
         /\ out[3] = args.input[3] \div obj.layer.factor
         /\ out[4] = args.input[4] \div obj.layer.factor

C4_Witness ==
  /\ pc = "done"
  /\ args.kind = "layer.forward"
  /\ obj.cls = "Downsample"
  /\ obj.layer.K = 4
  /\ obj.layer.factor = 2
  /\ args.input = <<1, 1, 5, 5>>
  /\ out = <<1, 1, 2, 2>>

\* C5 as stated: every Blur the code constructs returns the spatial size it
\* was given.
C5_BlurPreservesSize ==
  (pc = "done" /\ args.kind = "layer.forward" /\ obj.cls = "Blur") =>
    out = args.input

\* C5, amended: a Blur built next to a convolution of kernel size k returns
\* S - k + 2 in ModulatedConv2d's upsample branch and S + k - 2 in
\* ModulatedConv2d's downsample branch and in ConvLayer (downsample).
C5_BlurSize ==
  (pc = "done" /\ args.kind = "layer.forward" /\ obj.cls = "Blur") =>
    LET S == args.input[3]
        k == obj.kernel_size
        expected == IF obj.site = "ModulatedConv2d.upsample" THEN S - k + 2
                    ELSE S + k - 2
    IN  out = <<1, 1, expected, expected>>

C5_Witness ==
  /\ pc = "done"
  /\ args.kind = "layer.forward"
  /\ obj.cls = "Blur"
  /\ obj.site = "ConvLayer.downsample"
  /\ obj.layer.K = 4
  /\ obj.kernel_size = 3
  /\ args.input = <<1, 1, 4, 4>>
  /\ out = <<1, 1, 5, 5>>

\* C6: a Discriminator whose which_phi is not one of lin1, lin2, lin4, avg1,
\* avg2, and an Encoder whose which_phi is not one of avg0, avg1, lin1, lin2
\* or whose latent_space is not one of w, p, pn, z, is never constructed.
C6_FailFast ==
  /\ obj.cls = "Discriminator" => obj.which_phi \in DiscriminatorPhis
  /\ obj.cls = "Encoder" =>
       /\ obj.which_phi \in EncoderPhis
       /\ obj.latent_space \in LatentSpaces

\* C7: a Generator, Discriminator or Encoder whose size is not a key of the
\* channel-width table is never constructed.
C7_SizeValidated ==
  obj.cls \in {"Generator", "Discriminator", "Encoder"} => obj.size \in DOMAIN channels

\* forward([w], input_is_latent=True) with a single style whose shape is
\* neither [N, style_dim] nor one holding exactly n_latent vectors.
C8_Call ==
  /\ args.kind = "Generator.forward"
  /\ Supported
  /\ Len(args.styles) = 1
  /\ args.input_is_latent
  /\ LET shape == args.styles[1].shape
     IN  /\ shape # <<shape[1], obj.style_dim>>
         /\ shape # <<shape[1], obj.n_latent, obj.style_dim>>
         /\ shape # <<shape[1], obj.n_latent * obj.style_dim>>

\* C8: such a call raises before any block runs: no block is run with the
\* supplied style and no image is returned.
C8_StyleShapeChecked ==
  C8_Call => (blocks = << >> /\ pc # "done")

\* C9: Discriminator.forward on a batch of N images never raises and returns
\* one score per sample, [N, 1]; the trunk's output is 4x4 and the tensor
\* with the stddev channel has batch dimension N.
C9_ScorePerSample ==
  (args.kind = "Discriminator.forward" /\ obj.which_phi \in DiscriminatorPhis) =>
    /\ pc # "error"
    /\ pc = "d_stddev" => (out[3] = 4 /\ out[4] = 4)
    /\ pc = "d_final_conv" => out[1] = args.input[1]
    /\ pc = "done" => result.score = <<args.input[1], 1>>

\* C10: Encoder.forward on a batch of N images never raises and returns a
\* code [N, n_latent * style_dim] (w_plus) or [N, style_dim] (w_tied): as
\* (code, None) with return_tuple, bare without, and as two tensors of that
\* shape when the encoder reparameterizes.
C10_CodeShape ==
  args.kind = "Encoder.forward" =>
    /\ pc # "error"
    /\ pc = "done" =>
         LET code == <<args.input[1],
                       IF obj.which_latent = "w_plus" THEN obj.n_latent * obj.style_dim
                       ELSE obj.style_dim>>
         IN  result.parts = IF obj.reparameterization THEN <<code, code>>
                            ELSE IF obj.return_tuple THEN <<code, << >> >>
                            ELSE <<code>>

\* The number of styled-conv blocks among the first k - 1 blocks run.
StyledBefore(k) == Cardinality({m \in 1..(k - 1) : blocks[m].nz >= 0})

\* The running call's noise list holds maps (not None entries): the frozen
\* buffers, or an explicit list with one map per layer.
NoiseMaps ==
  \/ ~args.noise_given /\ ~args.randomize_noise
  \/ args.noise_given /\ args.noise = make_noise(obj)

\* C11: for every supported resolution make_noise() and the frozen buffers
\* both hold num_layers = 2 * (log2(R) - 2) + 1 maps of pairwise equal
\* spatial size; in forward the j-th styled-conv block (conv1 is block 0) is
\* given entry j of the noise list, and a map's size is the block's output
\* size.
C11_NoiseSchedule ==
  Supported =>
    /\ obj.num_layers = 2 * (Log2Floor(obj.size) - 2) + 1
    /\ Pow2(Log2Floor(obj.size)) = obj.size
    /\ Len(make_noise(obj)) = obj.num_layers
    /\ Len(obj.noises) = obj.num_layers
    /\ \A j \in 1..obj.num_layers : make_noise(obj)[j] = obj.noises[j]
    /\ args.kind = "Generator.forward" =>
         \A k \in DOMAIN blocks :
           blocks[k].nz >= 0 =>
             /\ blocks[k].nz = StyledBefore(k)
             /\ blocks[k].nz < Len(noise)
             /\ NoiseMaps =>
                  /\ noise[blocks[k].nz + 1] = blocks[k].shape[3]
                  /\ noise[blocks[k].nz + 1] = blocks[k].shape[4]

\* C11 witness: a call on the frozen buffers of a generator with at least
\* two stages returned, every one of its num_layers styled convs having run.
C11_Witness ==
  /\ Supported
  /\ obj.num_layers >= 5
  /\ args.kind = "Generator.forward"
  /\ ~args.noise_given /\ ~args.randomize_noise
  /\ pc = "done"
  /\ Cardinality({k \in DOMAIN blocks : blocks[k].nz >= 0}) = obj.num_layers

\* A demodulating ModulatedConv2d.forward call that returned.
C12_Call ==
  /\ pc = "done"
  /\ args.kind = "ModulatedConv2d.forward"
  /\ obj.demodulate

\* C12 as stated: with demodulate=True the weight is divided by
\* sqrt(sum of weight^2 over (in_channel, k, k) + 1e-8) per (sample,
\* out-channel), and the output's variance for unit-variance inputs, the
\* squared norm of the weight, is within 1e-6 of 1 whatever the input
\* channel count.
C12_UnitVariance ==
  C12_Call =>
    LET v == result.weight_sq
    IN  /\ v.num <= v.den + v.den \div 1000000
        /\ (v.den - v.num) * 1000000 <= v.den

\* C12 amended: the squared norm is S / (S + 1e-8), S being the sum of
\* squares of the modulated weight: strictly below 1, and within 1e-6 of 1
\* exactly when S >= 0.01 (on the grid of tenths, the same as
\* S >= 1e-8 * (1e6 - 1)).
C12_DemodVariance ==
  C12_Call =>
    LET v == result.weight_sq
        fan_in == obj.conv.in_channel * obj.conv.kernel_size * obj.conv.kernel_size
        sq == ModulatedSq(obj, args.style)
    IN  /\ v.num < v.den
        /\ ((v.den - v.num) * 1000000 <= v.den) <=> (sq >= 100 * fan_in)

\* C12 witness: a demodulating call on two or more input channels returned
\* with S >= 0.01.
C12_Witness ==
  /\ C12_Call
  /\ obj.conv.in_channel >= 2
  /\ ModulatedSq(obj, args.style)
       >= 100 * obj.conv.in_channel * obj.conv.kernel_size * obj.conv.kernel_size

\* The name the k-th block run by Generator.forward has when the blocks run
\* in the order conv1, to_rgb1, then up_conv, conv, to_rgb per stage.
BlockNameAt(k) ==
  IF k = 1 THEN "conv1"
  ELSE IF k = 2 THEN "to_rgb1"
  ELSE IF k % 3 = 0 THEN "up_conv"
  ELSE IF k % 3 = 1 THEN "conv"
  ELSE "to_rgb"

\* C13 as stated: the blocks run in the order first styled conv, first
\* to-RGB, then per stage upsampling conv, conv, to-RGB; the first conv reads
\* latent index 0, the first to-RGB index 1, and every later block reads the
\* index after the one read by the block before it, so that no index is
\* read by two blocks.
C13_NextIndex ==
  args.kind = "Generator.forward" =>
    /\ \A k \in DOMAIN blocks : blocks[k].name = BlockNameAt(k)
    /\ \A k \in DOMAIN blocks : blocks[k].idx = k - 1
    /\ \A k, m \in DOMAIN blocks : blocks[k].idx = blocks[m].idx => k = m

\* C13 amended: the order is as stated; the first conv reads index 0 and
\* the first to-RGB index 1; an upsampling conv reads the same index as the
\* to-RGB run just before it, and the conv and the to-RGB of a stage each
\* read the index after the one read by the block before them.
C13_BlockOrder ==
  args.kind = "Generator.forward" =>
    /\ \A k \in DOMAIN blocks : blocks[k].name = BlockNameAt(k)
    /\ Len(blocks) >= 1 => blocks[1].idx = 0
    /\ Len(blocks) >= 2 => blocks[2].idx = 1
    /\ \A k \in DOMAIN blocks :
         k >= 3 => blocks[k].idx = IF blocks[k].name = "up_conv" THEN blocks[k - 1].idx
                                  ELSE blocks[k - 1].idx + 1

\* C13 witness: a call on a supported generator returned after two or more
\* stages.
C13_Witness ==
  /\ args.kind = "Generator.forward"
  /\ Supported
  /\ pc = "done"
  /\ Len(blocks) >= 8

\* A forward call on a supported generator whose per-block latent was built
\* with at least n_latent rows of style_dim entries and whose noise list, if
\* one was passed, has an entry for every layer.
C14_Call ==
  /\ args.kind = "Generator.forward"
  /\ Supported
  /\ Len(latent.shape) = 3
  /\ latent.shape[2] >= obj.n_latent
  /\ latent.shape[3] = obj.style_dim
  /\ args.noise_given => Len(args.noise) >= obj.num_layers

\* C14: for every supported resolution R, n_latent = 2 * log2(R) - 2 (14 for
\* R = 256); a forward call reads no latent index out of bounds, and when it
\* returns the set of indices it read is exactly {0, ..., n_latent - 1}, the
\* last block being a to-RGB that read n_latent - 1.
C14_LatentIndices ==
  /\ Supported =>
       /\ Pow2(Log2Floor(obj.size)) = obj.size
       /\ obj.n_latent = 2 * Log2Floor(obj.size) - 2
       /\ obj.size = 256 => obj.n_latent = 14
  /\ C14_Call =>
       /\ pc # "error"
       /\ \A k \in DOMAIN blocks : blocks[k].idx \in 0..(obj.n_latent - 1)
       /\ pc = "done" =>
            /\ {blocks[k].idx : k \in DOMAIN blocks} = 0..(obj.n_latent - 1)
            /\ blocks[Len(blocks)].name \in {"to_rgb1", "to_rgb"}
            /\ blocks[Len(blocks)].idx = obj.n_latent - 1

\* C14 witness: a call on the 256 generator returned, having read 14 indices.
C14_Witness ==
  /\ C14_Call
  /\ obj.size = 256
  /\ pc = "done"
  /\ Cardinality({blocks[k].idx : k \in DOMAIN blocks}) = 14

\* A ModulatedConv2d.forward call that returned or raised.
C15_Call ==
  /\ pc \in {"done", "error"}
  /\ args.kind = "ModulatedConv2d.forward"

\* C15 as stated: for every H, kernel size k and blur-kernel length K,
\* ModulatedConv2d.forward returns spatial size 2H when upsample is set,
\* floor(H / 2) when downsample is set and H otherwise.
C15_ConvSize ==
  C15_Call =>
    LET H == args.input[3]
        expected == IF obj.conv.upsample THEN 2 * H
                    ELSE IF obj.conv.downsample THEN H \div 2
                    ELSE H
    IN  /\ pc = "done"
        /\ out = <<1, obj.conv.out_channel, expected, expected>>

\* C15 amended: 2H with upsample alone, whatever k and K; with downsample
\* alone floor(H / 2) for H >= 2 and an error for H = 1; with neither, H for
\* odd k and H + 1 for even k; with both set the upsample branch runs with
\* the downsample blur and returns 2H + 2k - 4.
C15_ModulatedConvSize ==
  C15_Call =>
    LET H == args.input[3]
        k == obj.conv.kernel_size
        up == obj.conv.upsample
        down == obj.conv.downsample
        expected == IF up /\ ~down THEN 2 * H
                    ELSE IF up THEN 2 * H + 2 * k - 4
                    ELSE IF down THEN H \div 2
                    ELSE IF k % 2 = 1 THEN H
                    ELSE H + 1
    IN  IF expected < 1 THEN pc = "error"
        ELSE /\ pc = "done"
             /\ out = <<1, obj.conv.out_channel, expected, expected>>

\* C15 witness: a downsampling 3x3 ModulatedConv2d with the 4-tap blur
\* returned 2x2 for a 5x5 input.
C15_Witness ==
  /\ C15_Call
  /\ ~obj.conv.upsample /\ obj.conv.downsample
  /\ obj.conv.kernel_size = 3
  /\ obj.conv.blur.K = 4
  /\ args.input[3] = 5
  /\ out = <<1, 1, 2, 2>>

\* C16: a Generator.forward call given an explicit noise list either raises
\* or runs all log2(R) - 2 stages and returns an image of size R; a list
\* shorter than num_layers never makes it return a smaller image.
C16_NoSkippedStage ==
  (/\ args.kind = "Generator.forward"
   /\ Supported
   /\ args.noise_given
   /\ pc = "done") =>
    /\ stage = Log2Floor(obj.size) - 2
    /\ result.image = <<BatchOf(args), 3, obj.size, obj.size>>
====
